---- MODULE Spec2Model ----
(***************************************************************************)
(* Model of node-red-contrib-unifi-os:                                     *)
(*   - the access controller node (src/src/nodes/AccessController.ts):     *)
(*     login with retry, cookie cache, authenticated requests with 401     *)
(*     resend, periodic refresh, bootstrap fetch, close handler;           *)
(*   - the shared Protect web socket (src/unnamed/part_000):               *)
(*     Connect, the message handler with its two decode paths, the         *)
(*     interest registry.                                                  *)
(* One action is one event-loop callback: a callback runs to completion,   *)
(* together with the promise reactions (microtasks) it makes runnable.     *)
(***************************************************************************)
EXTENDS Integers, Sequences, FiniteSets, Bags, TLC

\* ------------------------------------------------------------------ bounds
\* getAuthCookie invocations that take the login branch, over a whole run
MaxCalls == 3
\* request() invocations (the bootstrap fetches included), over a whole run
MaxReqs == 2

\* WebSocket objects Connect() creates, over a whole run
MaxSocks == 2

\* ----------------------------------------------------------------- domains
None == "undefined"
\* values a login response may carry as first set-cookie header
Cookies == {"TOKEN1", "TOKEN2"}
\* response.data of a successful authenticated request
Docs == {"docA", "docB"}
ControllerTypes == {"UniFiOSConsole", "UniFiNetworkApplication"}
\* node ids of the consumers of the shared web socket
Nodes == {"n1", "n2", "n3"}
\* Interest.deviceId
DeviceIds == {"camA", "camB"}
\* What an Interest.callback does besides taking the data: nothing ("-"), or
\* degisterInterest of the named node (its own or another one).
Callbacks == {"-"} \cup Nodes
\* inbound frames: a JSON text frame, a binary update packet, and a binary
\* frame the update-packet decoder cannot decode
Frames == {"{\"type\":\"ring\"}", "updatePacket", "truncatedPacket"}
Null == "null"

\* endpoints[controllerType].login.retry, in clock ticks
LoginRetry(ct) == IF ct = "UniFiOSConsole" THEN 2 ELSE 1

VARIABLES
    controllerType,   \* self.controllerType
    authCookie,       \* self.authCookie
    authenticated,    \* self.authenticated
    initialized,      \* self.initialized
    stopped,          \* self.stopped
    aborted,          \* self.abortController.signal.aborted
    refreshTimeout,   \* TRUE while the setInterval of refresh is armed
    bootstrapObject,  \* self.bootstrapObject
    calls,            \* bag of the getAuthCookie invocations that took the
                      \* login branch (the promise and closure of each)
    reqs,             \* bag of the request() invocations that are not
                      \* waiting inside a getAuthCookie call
    epochLogins,      \* login POSTs issued by getAuthCookie(false) calls since
                      \* the last forced regeneration, rejection or failure
    epochCreds,       \* credentials those calls resolved to
    callbacks,        \* this.callbacks, as the sequence of its entries in key
                      \* (insertion) order
    socks,            \* the WebSocket objects created; this.WS is the last
    regTouched,       \* registerInterest was called since the last disconnect
    lastDispatch      \* what the message handler did, when the last step was
                      \* the arrival of a frame (NoDispatch otherwise)

acVars == <<controllerType, authCookie, authenticated, initialized, stopped,
            aborted, refreshTimeout, bootstrapObject, calls, reqs,
            epochLogins, epochCreds>>

wsVars == <<callbacks, socks, regTouched, lastDispatch>>

vars == <<acVars, wsVars>>


\* ------------------------------------------------------- the manager state
\* The fields of self that the handlers read and write, as one record, so that
\* a handler and the functions it calls compose as functions on this record.
Self ==
    [authCookie |-> authCookie, authenticated |-> authenticated,
     initialized |-> initialized, bootstrapObject |-> bootstrapObject,
     calls |-> calls, reqs |-> reqs,
     epochLogins |-> epochLogins, epochCreds |-> epochCreds,
     controllerType |-> controllerType, stopped |-> stopped, socks |-> socks]

Commit(m) ==
    /\ authCookie' = m.authCookie
    /\ authenticated' = m.authenticated
    /\ initialized' = m.initialized
    /\ bootstrapObject' = m.bootstrapObject
    /\ calls' = m.calls
    /\ reqs' = m.reqs
    /\ epochLogins' = m.epochLogins
    /\ epochCreds' = m.epochCreds
    /\ socks' = m.socks

\* A request() invocation: the promise it returned and where its axiosRequest
\* stands. phase: "await" (axiosRequest awaits the getAuthCookie call that
\* holds it), "stuck" (that call will never resolve), "inflight"
\* (Axios.request awaits its response, sent with cookie header sent), "timer"
\* (the resend is scheduled), "done". atClose: Axios.request was awaiting its
\* response when the close handler ran.
NewReq(kind) ==
    [kind |-> kind, phase |-> "await", sent |-> None, delay |-> 0,
     waited |-> 0, promise |-> "pending", result |-> None, resent |-> FALSE,
     atClose |-> FALSE]

NoReq == [NewReq("-") EXCEPT !.phase = "-"]

\* A request that has ended keeps only how its promise was settled.
EndedReq(rq) ==
    [NewReq("-") EXCEPT !.phase = "done", !.promise = rq.promise,
                        !.result = rq.result]

\* A getAuthCookie invocation in its login branch. phase: "inflight" (a login
\* POST awaits its response), "timer" (setTimeout(authenticateWithRetry) is
\* pending), "resolved", "hung" (neither resolved nor retried any more).
\* rq: the request whose axiosRequest awaits the call (owner "req").
\* cached: a credential was stored when the call was made. ep: the call
\* counts for the current credential-caching window.
NewCall(regenerate, owner, rq, cached) ==
    [regen |-> regenerate, owner |-> owner, rq |-> rq, cached |-> cached,
     phase |-> "inflight", delay |-> 0, waited |-> 0, ep |-> ~regenerate]

\* A call that has ended keeps only how it ended.
EndedCall(how) == [NewCall(FALSE, "-", NoReq, FALSE) EXCEPT !.phase = how, !.ep = FALSE]

One(x) == SetToBag({x})

\* Start of a new window for the credential-caching bookkeeping.
Unmark(b) ==
    LET S == BagToSet(b)
        T == {[x EXCEPT !.ep = FALSE] : x \in S}
    IN  [y \in T |-> (IF y \in S THEN b[y] ELSE 0)
                     + (IF [y EXCEPT !.ep = TRUE] \in S
                        THEN b[[y EXCEPT !.ep = TRUE]] ELSE 0)]

ResetEpoch(m) ==
    [m EXCEPT !.epochLogins = 0, !.epochCreds = {}, !.calls = Unmark(@)]

\* AccessController.ts:96: the cache branch of getAuthCookie is taken
ReturnsStored(m, regenerate) == m.authCookie # None /\ regenerate # TRUE

\* getAuthCookie with the test of regenerate left out of line 96
getAuthCookieIgnoringRegenerate(m, regenerate, owner, rq) ==
    IF m.authCookie # None
    THEN [m EXCEPT !.epochCreds = @ \cup {m.authCookie}]
    ELSE [m EXCEPT !.calls = @ (+) One(NewCall(regenerate, owner, rq, FALSE)),
                   !.epochLogins = IF regenerate THEN 0 ELSE @ + 1]

\* getAuthCookie that joins a login attempt in flight instead of returning the
\* stored cookie
getAuthCookieAwaitingInFlight(m, regenerate, owner, rq) ==
    IF ReturnsStored(m, regenerate)
       /\ ~ \E c \in BagToSet(m.calls) : c.phase = "inflight"
    THEN [m EXCEPT !.epochCreds = @ \cup {m.authCookie}]
    ELSE [m EXCEPT !.calls = @ (+) One(NewCall(regenerate, owner, rq,
                                               m.authCookie # None)),
                   !.epochLogins = IF regenerate THEN 0 ELSE @ + 1]

\* self.getAuthCookie(regenerate): either Promise.resolve(self.authCookie), or
\* a new promise whose executor calls authenticateWithRetry(), which issues
\* the login POST at once.
getAuthCookie(m, regenerate, owner, rq) ==
    IF ReturnsStored(m, regenerate)
    THEN [m EXCEPT !.epochCreds = @ \cup {m.authCookie}]
    ELSE LET e == IF regenerate THEN ResetEpoch(m) ELSE m
         IN  [e EXCEPT !.calls = @ (+) One(NewCall(regenerate, owner, rq,
                                                   m.authCookie # None)),
                       !.epochLogins = IF regenerate THEN 0 ELSE @ + 1]

\* (await self.getAuthCookie().then((value) => value)) ?? ''
CookieHeader(v) == IF v = None THEN "" ELSE v

\* Axios.request of request rq with the awaited cookie v
Transmit(m, rq, v) ==
    [m EXCEPT !.reqs = @ (+) One([rq EXCEPT !.phase = "inflight",
                                            !.sent = CookieHeader(v)])]

\* axiosRequest of request rq: awaits getAuthCookie(), then calls
\* Axios.request with the cookie header. With a stored cookie the await
\* resumes in the same macrotask; otherwise the request waits in the call
\* whose login it started.
axiosRequest(m, rq) ==
    IF ReturnsStored(m, FALSE)
    THEN Transmit(getAuthCookie(m, FALSE, "req", rq), rq, m.authCookie)
    ELSE getAuthCookie(m, FALSE, "req", [rq EXCEPT !.phase = "await"])

\* self.request(nodeId, endpoint, method, data, responseType)
request(m, kind) == axiosRequest(m, NewReq(kind))

\* getBootstrap(): self.request(self.id, bootstrapURI, 'GET', undefined, 'json')
getBootstrap(m) == request(m, "bootstrap")

\* refresh(init): self.getAuthCookie(true), whose resolution runs refreshThen
refresh(m, init) ==
    getAuthCookie(m, TRUE, IF init THEN "refreshInit" ELSE "refresh", NoReq)

\* the .then of refresh: marks initialized on the initial call, then getBootstrap()
refreshThen(m, init) ==
    getBootstrap([m EXCEPT !.initialized = IF init THEN TRUE ELSE @])

\* new WebSocket(url, {headers: {Cookie: ...}}): the new object becomes
\* this.WS. re: the socket it replaces had been disconnected.
NewSocket(m) ==
    [m EXCEPT !.socks = Append(@, [state |-> "connecting",
                                   re |-> Len(@) > 0 /\ @[Len(@)].state = "closed"])]

\* What runs when the promise of call c resolves with value v: the
\* continuation of whoever awaits it.
Resume(m, c, v) ==
    CASE c.owner = "refreshInit" -> refreshThen(m, TRUE)
      [] c.owner = "refresh" -> refreshThen(m, FALSE)
      [] c.owner = "req" -> Transmit(m, c.rq, v)
      [] c.owner = "ws" -> NewSocket(m)
      [] OTHER -> m

\* The promise of call c stays pending for ever: its awaiter never resumes.
Strand(m, c) ==
    IF c.owner = "req"
    THEN [m EXCEPT !.reqs = @ (+) One([c.rq EXCEPT !.phase = "stuck"])]
    ELSE m

\* Call c ends (how: "resolved" or "hung").
EndCall(m, c, how) ==
    [m EXCEPT !.calls = (@ (-) One(c)) (+) One(EndedCall(how))]

\* .then of the login POST with response.status === 200 and
\* response.headers['set-cookie']?.[0] = ck
onLogin200(m, c, ck) ==
    LET e == IF c.regen THEN ResetEpoch(m) ELSE m
    IN  Resume([EndCall(e, c, "resolved") EXCEPT
                    !.authCookie = ck,
                    !.authenticated = TRUE,
                    !.epochCreds = IF c.ep THEN @ \cup {ck} ELSE @],
               c, ck)

\* .then of the login POST with a 2xx status other than 200: no branch taken
onLoginNot200(m, c) == Strand(EndCall(m, c, "hung"), c)

\* .catch of the login POST
onLoginError(m, c) ==
    LET m1 == [m EXCEPT !.authenticated = FALSE, !.authCookie = None,
                        !.calls = @ (-) One(c)]
        m2 == ResetEpoch(m1)
    IN  IF ~m.stopped
        THEN [m2 EXCEPT !.calls = @ (+) One([c EXCEPT
                            !.phase = "timer",
                            !.delay = LoginRetry(m.controllerType),
                            !.waited = 0,
                            !.ep = FALSE])]
        ELSE Strand([m2 EXCEPT !.calls = @ (+) One(EndedCall("hung"))], c)

\* the timer callback authenticateWithRetry: the next login POST
authenticateWithRetry(m, c) ==
    [m EXCEPT !.calls = (@ (-) One(c)) (+) One([c EXCEPT !.phase = "inflight",
                                                         !.delay = 0,
                                                         !.waited = 0])]

\* resolve / reject of an already settled promise is a no-op
Settle(rq, how, what) ==
    IF rq.promise = "pending"
    THEN [rq EXCEPT !.promise = how, !.result = what]
    ELSE rq

\* onResponse storing the response of any request as the bootstrap
onResponseStoringAny(m, rq, d) ==
    [m EXCEPT !.reqs = (@ (-) One(rq)) (+) One(EndedReq(Settle(rq, "resolved", d))),
              !.bootstrapObject = IF rq.promise = "pending" THEN d ELSE @]

\* .then of Axios.request with a response: resolve(response.data); for the
\* bootstrap fetch the .then of getBootstrap stores the document.
onResponse(m, rq, d) ==
    [m EXCEPT !.reqs = (@ (-) One(rq)) (+) One(EndedReq(Settle(rq, "resolved", d))),
              !.bootstrapObject =
                  IF rq.promise = "pending" /\ rq.kind = "bootstrap" THEN d ELSE @]

\* on401 with the delay argument of setTimeout left out
on401WithoutDelay(m, rq) ==
    LET m1 == ResetEpoch([m EXCEPT !.authenticated = FALSE, !.authCookie = None])
    IN  [m1 EXCEPT !.reqs = (@ (-) One(rq)) (+)
                       One([Settle(rq, "rejected", "e401") EXCEPT
                               !.phase = "timer",
                               !.sent = None,
                               !.atClose = FALSE,
                               !.delay = 0,
                               !.waited = 0])]

\* .catch of Axios.request with an HttpError of status 401
on401(m, rq) ==
    LET m1 == ResetEpoch([m EXCEPT !.authenticated = FALSE, !.authCookie = None])
    IN  [m1 EXCEPT !.reqs = (@ (-) One(rq)) (+)
                       One([Settle(rq, "rejected", "e401") EXCEPT
                               !.phase = "timer",
                               !.sent = None,
                               !.atClose = FALSE,
                               !.delay = LoginRetry(m.controllerType),
                               !.waited = 0])]

\* .catch of Axios.request with any other error
onRequestError(m, rq) ==
    [m EXCEPT !.reqs = (@ (-) One(rq)) (+)
                  One(EndedReq(Settle(rq, "rejected", "eOther")))]

\* the timer callback axiosRequest: the resend
resend(m, rq) ==
    axiosRequest([m EXCEPT !.reqs = @ (-) One(rq)],
                 [rq EXCEPT !.resent = TRUE, !.delay = 0, !.waited = 0])

\* ------------------------------------------------------------------ actions
LiveCalls == {c \in BagToSet(calls) : c.phase \in {"inflight", "timer"}}

\* Every request() invocation made so far, wherever it waits.
AllReqs == BagToSet(reqs) \cup {c.rq : c \in {x \in LiveCalls : x.owner = "req"}}

\* Refresh cycles whose bootstrap request is still to be created: a slot is
\* kept for each, so that MaxReqs never blocks a login response.
SlotsTaken(m) ==
    LET live == {c \in BagToSet(m.calls) : c.phase \in {"inflight", "timer"}
                                            /\ c.owner # "user"}
    IN  BagCardinality(m.reqs)
        + BagCardinality([c \in live |-> m.calls[c]])

FreeReqSlot == SlotsTaken(Self) < MaxReqs

\* A getAuthCookie that takes the login branch needs a free call slot.
CallSlotFor(m, regenerate) ==
    ReturnsStored(m, regenerate) \/ BagCardinality(m.calls) < MaxCalls

\* Some consumer (another node, the shared web socket) calls getAuthCookie.
UserGetAuthCookie(regenerate) ==
    /\ CallSlotFor(Self, regenerate)
    /\ Commit(getAuthCookie(Self, regenerate, "user", NoReq))
    /\ UNCHANGED <<controllerType, stopped, aborted, refreshTimeout>>
    /\ UNCHANGED <<callbacks, regTouched, lastDispatch>>

\* Some consumer calls request().
UserRequest ==
    /\ FreeReqSlot
    /\ CallSlotFor(Self, FALSE)
    /\ Commit(request(Self, "user"))
    /\ UNCHANGED <<controllerType, stopped, aborted, refreshTimeout>>
    /\ UNCHANGED <<callbacks, regTouched, lastDispatch>>

\* The setInterval callback, every 45 minutes until the interval is cleared.
RefreshTick ==
    /\ refreshTimeout
    /\ FreeReqSlot
    /\ CallSlotFor(Self, TRUE)
    /\ Commit(refresh(Self, FALSE))
    /\ UNCHANGED <<controllerType, stopped, aborted, refreshTimeout>>
    /\ UNCHANGED <<callbacks, regTouched, lastDispatch>>

\* The login POST of call c is answered 200; an aborted POST never is.
LoginSucceed(c, ck) ==
    /\ c.phase = "inflight"
    /\ ~aborted
    /\ LET m == onLogin200(Self, c, ck)
       IN  /\ BagCardinality(m.calls) <= MaxCalls
           /\ Commit(m)
    /\ UNCHANGED <<controllerType, stopped, aborted, refreshTimeout>>
    /\ UNCHANGED <<callbacks, regTouched, lastDispatch>>

\* The login POST of call c is answered with another 2xx status.
LoginNot200(c) ==
    /\ c.phase = "inflight"
    /\ ~aborted
    /\ Commit(onLoginNot200(Self, c))
    /\ UNCHANGED <<controllerType, stopped, aborted, refreshTimeout>>
    /\ UNCHANGED <<callbacks, regTouched, lastDispatch>>

\* The login POST of call c fails: network error, non-2xx status, or abort.
LoginFail(c) ==
    /\ c.phase = "inflight"
    /\ Commit(onLoginError(Self, c))
    /\ UNCHANGED <<controllerType, stopped, aborted, refreshTimeout>>
    /\ UNCHANGED <<callbacks, regTouched, lastDispatch>>

\* The retry timer of call c fires, not before its delay has elapsed.
LoginRetryFire(c) ==
    /\ c.phase = "timer"
    /\ c.waited >= c.delay
    /\ Commit(authenticateWithRetry(Self, c))
    /\ UNCHANGED <<controllerType, stopped, aborted, refreshTimeout>>
    /\ UNCHANGED <<callbacks, regTouched, lastDispatch>>

\* Request rq is answered with a response. Axios.request carries no signal.
ReqSucceed(rq, d) ==
    /\ rq.phase = "inflight"
    /\ Commit(onResponse(Self, rq, d))
    /\ UNCHANGED <<controllerType, stopped, aborted, refreshTimeout>>
    /\ UNCHANGED <<callbacks, regTouched, lastDispatch>>

\* Request rq is answered with an authentication rejection.
Req401(rq) ==
    /\ rq.phase = "inflight"
    /\ Commit(on401(Self, rq))
    /\ UNCHANGED <<controllerType, stopped, aborted, refreshTimeout>>
    /\ UNCHANGED <<callbacks, regTouched, lastDispatch>>

\* Request rq fails with any other error.
ReqError(rq) ==
    /\ rq.phase = "inflight"
    /\ Commit(onRequestError(Self, rq))
    /\ UNCHANGED <<controllerType, stopped, aborted, refreshTimeout>>
    /\ UNCHANGED <<callbacks, regTouched, lastDispatch>>

\* The resend timer of request rq fires, not before its delay has elapsed.
ResendFire(rq) ==
    /\ rq.phase = "timer"
    /\ rq.waited >= rq.delay
    /\ CallSlotFor(Self, FALSE)
    /\ Commit(resend(Self, rq))
    /\ UNCHANGED <<controllerType, stopped, aborted, refreshTimeout>>
    /\ UNCHANGED <<callbacks, regTouched, lastDispatch>>

\* Bookkeeping at close: the requests whose Axios.request is in flight.
AtClose(x) == IF x.phase = "inflight" THEN [x EXCEPT !.atClose = TRUE] ELSE x

MarkInFlight(b) ==
    LET S == BagToSet(b)
    IN  [y \in {AtClose(x) : x \in S} |->
            b[IF y.phase = "inflight" THEN [y EXCEPT !.atClose = FALSE] ELSE y]]

\* the close handler without clearTimeout(refreshTimeout)
CloseKeepingInterval ==
    /\ ~stopped
    /\ stopped' = TRUE
    /\ aborted' = TRUE
    /\ reqs' = MarkInFlight(reqs)
    /\ UNCHANGED <<controllerType, authCookie, authenticated, initialized,
                   bootstrapObject, calls, epochLogins, epochCreds,
                   refreshTimeout>>
    /\ UNCHANGED wsVars

\* self.on('close'): the requests themselves are not touched (Axios.request
\* is given no signal); the logout POST is best effort and changes no state.
Close ==
    /\ ~stopped
    /\ stopped' = TRUE
    /\ refreshTimeout' = FALSE
    /\ aborted' = TRUE
    /\ reqs' = MarkInFlight(reqs)
    /\ UNCHANGED <<controllerType, authCookie, authenticated, initialized,
                   bootstrapObject, calls, epochLogins, epochCreds>>
    /\ UNCHANGED wsVars

\* One unit of time passes for every pending timer that has not yet run out.
Waiting(x) == x.phase = "timer" /\ x.waited < x.delay

Age(x) == IF Waiting(x) THEN [x EXCEPT !.waited = @ + 1] ELSE x

Younger(y) == [y EXCEPT !.waited = @ - 1]

AgeAll(b) ==
    LET S == BagToSet(b)
        T == {Age(x) : x \in S}
    IN  [y \in T |-> (IF y \in S /\ ~Waiting(y) THEN b[y] ELSE 0)
                     + (IF y.phase = "timer" /\ y.waited > 0 /\ Younger(y) \in S
                        THEN b[Younger(y)] ELSE 0)]

Tick ==
    /\ \E x \in BagToSet(calls) \cup BagToSet(reqs) : Waiting(x)
    /\ calls' = AgeAll(calls)
    /\ reqs' = AgeAll(reqs)
    /\ UNCHANGED <<controllerType, authCookie, authenticated, initialized,
                   stopped, aborted, refreshTimeout, bootstrapObject,
                   epochLogins, epochCreds>>
    /\ UNCHANGED wsVars

\* The state after the constructor body has run: the fields as initialised at
\* lines 38-42, the interval armed, and refresh(true) called (line 241), whose
\* getAuthCookie(true) has issued the first login POST.
Blank(ct) ==
    [authCookie |-> None, authenticated |-> FALSE, initialized |-> FALSE,
     bootstrapObject |-> None, calls |-> EmptyBag, reqs |-> EmptyBag,
     epochLogins |-> 0, epochCreds |-> {}, controllerType |-> ct,
     stopped |-> FALSE, socks |-> <<>>]

NoDispatch ==
    [sock |-> 0, frame |-> "-", payload |-> Null, regs |-> <<>>, still |-> {},
     got |-> <<>>, threw |-> FALSE, recon |-> FALSE]

Init ==
    /\ controllerType \in ControllerTypes
    /\ stopped = FALSE
    /\ aborted = FALSE
    /\ refreshTimeout = TRUE
    /\ LET m == refresh(Blank(controllerType), TRUE)
       IN  /\ authCookie = m.authCookie
           /\ authenticated = m.authenticated
           /\ initialized = m.initialized
           /\ bootstrapObject = m.bootstrapObject
           /\ calls = m.calls
           /\ reqs = m.reqs
           /\ epochLogins = m.epochLogins
           /\ epochCreds = m.epochCreds
           /\ socks = m.socks
    /\ callbacks = <<>>
    /\ regTouched = FALSE
    /\ lastDispatch = NoDispatch

Next ==
    \/ \E g \in BOOLEAN : UserGetAuthCookie(g)
    \/ UserRequest
    \/ RefreshTick
    \/ \E c \in BagToSet(calls) : \E ck \in Cookies \cup {None} : LoginSucceed(c, ck)
    \/ \E c \in BagToSet(calls) : LoginNot200(c)
    \/ \E c \in BagToSet(calls) : LoginFail(c)
    \/ \E c \in BagToSet(calls) : LoginRetryFire(c)
    \/ \E rq \in BagToSet(reqs) : \E d \in Docs : ReqSucceed(rq, d)
    \/ \E rq \in BagToSet(reqs) : Req401(rq)
    \/ \E rq \in BagToSet(reqs) : ReqError(rq)
    \/ \E rq \in BagToSet(reqs) : ResendFire(rq)
    \/ Close
    \/ Tick

Spec == Init /\ [][Next]_vars


\* ------------------------------------------------- claims on the manager
Timers(b) == BagCardinality([x \in {y \in BagToSet(b) : y.phase = "timer"} |-> b[x]])

\* C1: over any window of getAuthCookie(false) calls with no forced
\* regeneration, no authentication rejection and no login failure in between,
\* at most one login POST is issued and all calls resolve to one credential.
CredentialCaching == epochLogins <= 1 /\ Cardinality(epochCreds) <= 1

\* C2: the promise request() returned is never rejected because of a 401: it
\* stays pending while the resend is awaited.
RejectionNotSurfaced ==
    \A rq \in AllReqs : rq.promise = "rejected" => rq.result # "e401"

\* C3: a 401 on an authenticated request clears the cookie, sets authenticated
\* to false and schedules exactly one resend of that request with the retry
\* delay of the controller type, issuing nothing at once; resend timers are
\* scheduled by nothing else; and a resend starts only after the retry delay
\* has elapsed since the rejection.
AuthStaleRecovery ==
    [][/\ \A rq \in BagToSet(reqs) :
            Req401(rq) =>
                /\ authCookie' = None
                /\ authenticated' = FALSE
                /\ \E t \in BagToSet(reqs') :
                      /\ t.phase = "timer"
                      /\ t.kind = rq.kind
                      /\ t.waited = 0
                      /\ t.delay = LoginRetry(controllerType)
                      /\ reqs' = (reqs (-) One(rq)) (+) One(t)
                /\ BagCardinality(calls') = BagCardinality(calls)
       /\ Timers(reqs') > Timers(reqs) =>
            /\ \E rq \in BagToSet(reqs) : Req401(rq)
            /\ Timers(reqs') = Timers(reqs) + 1
       /\ \A rq \in BagToSet(reqs) :
            ResendFire(rq) =>
                /\ rq.waited >= LoginRetry(controllerType)
                /\ Timers(reqs') = Timers(reqs) - 1
      ]_vars

\* C3 witness: a request rejected with 401 has been resent after the delay.
ResentAfterDelay ==
    \E rq \in BagToSet(reqs) : rq.resent /\ rq.phase = "inflight"

\* C4: once the close handler has run, no login retry and no resend is
\* started and no retry timer is scheduled.
ShutdownHaltsRetries ==
    [][stopped =>
          /\ ~ \E c \in BagToSet(calls) : LoginRetryFire(c)
          /\ ~ \E rq \in BagToSet(reqs) : ResendFire(rq)
          /\ Timers(calls') + Timers(reqs') <= Timers(calls) + Timers(reqs)
      ]_vars

\* C10: every getAuthCookie(true) issues a new login POST, with or without a
\* cached credential.
ForcedRegeneration ==
    [][(UserGetAuthCookie(TRUE) \/ RefreshTick) =>
          \E c \in BagToSet(calls') :
              /\ c.regen
              /\ c.phase = "inflight"
              /\ calls' = Unmark(calls) (+) One(c)
      ]_vars

\* C10 witness: a forced call made while a credential was cached has its
\* login POST in flight.
ForcedWhileCached ==
    \E c \in BagToSet(calls) : c.regen /\ c.cached /\ c.phase = "inflight"

\* a getAuthCookie(true) call has its login POST in flight
ForcedInFlight == \E c \in BagToSet(calls) : c.regen /\ c.phase = "inflight"

\* C11: while a forced regeneration has its login POST in flight and a cookie
\* is stored, getAuthCookie(false) resolves at once with the stored cookie and
\* issues no login; a request() made then is transmitted at once with it.
NonBlockingRead ==
    [][(authCookie # None /\ ForcedInFlight) =>
          /\ UserGetAuthCookie(FALSE) =>
                /\ calls' = calls
                /\ authCookie' = authCookie
                /\ epochCreds' = epochCreds \cup {authCookie}
                /\ epochLogins' = epochLogins
          /\ UserRequest =>
                /\ calls' = calls
                /\ authCookie' = authCookie
                /\ \E t \in BagToSet(reqs') :
                      /\ t.phase = "inflight"
                      /\ t.sent = authCookie
                      /\ reqs' = reqs (+) One(t)
      ]_vars

\* C11 witness: with a forced login in flight, the stored cookie has been
\* handed out and no other login has been issued since the forced call.
ReadDuringRegeneration ==
    /\ authCookie # None
    /\ ForcedInFlight
    /\ epochLogins = 0
    /\ epochCreds = {authCookie}

\* C12: a request that fails with an error other than a 401 rejects the
\* promise request() returned with that error, schedules no resend and starts
\* no login, and leaves authCookie and authenticated as they were.
OtherErrorSurfaced ==
    [][\A rq \in BagToSet(reqs) :
          ReqError(rq) =>
              /\ \E t \in BagToSet(reqs') :
                    /\ t.phase = "done"
                    /\ t.promise = "rejected"
                    /\ t.result = "eOther"
                    /\ reqs' = (reqs (-) One(rq)) (+) One(t)
              /\ calls' = calls
              /\ authCookie' = authCookie
              /\ authenticated' = authenticated
      ]_vars

\* C13: every login attempt that ends without success (an error, or a
\* response whose status is not 200) clears authCookie, sets authenticated to
\* false and, unless the node is stopped, schedules the next attempt of the
\* same call with the retry delay of the controller type.
LoginRetriedUntilSuccess ==
    [][\A c \in BagToSet(calls) :
          (LoginFail(c) \/ LoginNot200(c)) =>
              /\ authCookie' = None
              /\ authenticated' = FALSE
              /\ ~stopped =>
                    /\ Timers(calls') = Timers(calls) + 1
                    /\ \E t \in BagToSet(calls') :
                          /\ t.phase = "timer"
                          /\ t.owner = c.owner
                          /\ t.waited = 0
                          /\ t.delay = LoginRetry(controllerType)
      ]_vars

\* C15: once the close handler has run, authCookie and authenticated never
\* change again.
StoppedIsTerminal ==
    [][stopped => (authCookie' = authCookie /\ authenticated' = authenticated)]_vars

\* C16: a network operation in flight when the close handler runs is aborted:
\* no login POST is answered after the abort, and a request that was in flight
\* at close does not complete with a response that resolves its promise or
\* replaces the bootstrap snapshot.
ShutdownAbortsInFlight ==
    [][/\ aborted =>
            ~ \E c \in BagToSet(calls) : \E ck \in Cookies \cup {None} :
                  LoginSucceed(c, ck)
       /\ \A rq \in BagToSet(reqs) : \A d \in Docs :
            (rq.atClose /\ ReqSucceed(rq, d)) =>
                /\ rq.promise # "pending"
                /\ bootstrapObject' = bootstrapObject
      ]_vars

\* the refresh cycles whose forced login is still going on
RefreshCalls(b) ==
    BagCardinality([c \in {x \in BagToSet(b) :
                              /\ x.owner \in {"refresh", "refreshInit"}
                              /\ x.phase \in {"inflight", "timer"}} |-> b[c]])

\* C17: once the close handler has run, the interval is cleared, its callback
\* never runs again and no refresh cycle is started.
RefreshCancelled ==
    [][stopped =>
          /\ ~refreshTimeout
          /\ ~RefreshTick
          /\ RefreshCalls(calls') <= RefreshCalls(calls)
      ]_vars

\* C17 witness: the node is stopped after its first refresh cycle, with room
\* left for the login and the bootstrap fetch of one more cycle.
StoppedWithRoomToRefresh ==
    /\ stopped
    /\ initialized
    /\ FreeReqSlot
    /\ BagCardinality(calls) < MaxCalls

TransmitsWithCredential ==
    \A rq \in BagToSet(reqs) : rq.phase = "inflight" => rq.sent \in Cookies

\* C20: authenticated is true exactly when a cookie is stored.
AuthenticatedIffCookie == authenticated <=> (authCookie # None)

\* ---------------------------------------------- the shared Protect web socket
Keys(cbs) == [i \in DOMAIN cbs |-> cbs[i].node]

Registered(cbs) == {cbs[i].node : i \in DOMAIN cbs}

\* registerInterest that adds an entry without looking for the key
registerInterestAppending(cbs, nodeId, interest) ==
    Append(cbs, [node |-> nodeId, deviceId |-> interest.deviceId,
                 callback |-> interest.callback])

\* registerInterest(nodeId, interest): this.callbacks[nodeId] = interest; an
\* existing key keeps its place in the key order, a new one goes last.
registerInterest(cbs, nodeId, interest) ==
    LET e == [node |-> nodeId, deviceId |-> interest.deviceId,
              callback |-> interest.callback]
    IN  IF nodeId \in Registered(cbs)
        THEN [i \in DOMAIN cbs |-> IF cbs[i].node = nodeId THEN e ELSE cbs[i]]
        ELSE Append(cbs, e)

\* degisterInterest(nodeId): delete this.callbacks[nodeId]
degisterInterest(cbs, nodeId) == SelectSeq(cbs, LAMBDA e : e.node # nodeId)

\* JSON.parse(data.toString()): the parsed value, or a SyntaxError
JSONparse(frame) ==
    IF frame = "{\"type\":\"ring\"}"
    THEN [ok |-> TRUE, value |-> "ringEvent"]
    ELSE [ok |-> FALSE, value |-> Null]

\* ProtectApiUpdates.decodeUpdatePacket(log, packet): the decoded update, or
\* null (after logging) when the packet cannot be decoded
decodeUpdatePacket(frame) ==
    IF frame = "updatePacket" THEN "motionUpdate" ELSE Null

\* the try/catch of the message handler
Decode(frame) ==
    IF JSONparse(frame).ok THEN JSONparse(frame).value
    ELSE decodeUpdatePacket(frame)

\* Object.keys(this.callbacks).forEach((Node) =>
\*     this.callbacks[Node].callback(objectToSend)), from key i on. A key whose
\* entry is gone makes this.callbacks[Node] undefined and the property access
\* throws a TypeError, which ends the forEach.
RECURSIVE forEach(_, _, _, _, _)
forEach(keys, i, cbs, got, objectToSend) ==
    IF i > Len(keys)
    THEN [cbs |-> cbs, got |-> got, threw |-> FALSE]
    ELSE IF keys[i] \notin Registered(cbs)
    THEN [cbs |-> cbs, got |-> got, threw |-> TRUE]
    ELSE LET e == CHOOSE x \in {cbs[j] : j \in DOMAIN cbs} : x.node = keys[i]
         IN  forEach(keys, i + 1,
                     IF e.callback = "-" THEN cbs
                     ELSE degisterInterest(cbs, e.callback),
                     Append(got, [node |-> keys[i], data |-> objectToSend]),
                     objectToSend)

\* the 'message' handler installed by Connect
onMessage(cbs, frame) == forEach(Keys(cbs), 1, cbs, <<>>, Decode(frame))

\* Connect(): awaits AccessController.getAuthCookie(), then creates the
\* WebSocket and installs the message handler. No 'error' or 'close' handler
\* is installed.
Connect ==
    /\ Len(socks) < MaxSocks
    /\ CallSlotFor(Self, FALSE)
    /\ LET m == getAuthCookie(Self, FALSE, "ws", NoReq)
       IN  Commit(IF ReturnsStored(Self, FALSE) THEN NewSocket(m) ELSE m)
    /\ lastDispatch' = NoDispatch
    /\ UNCHANGED <<controllerType, stopped, aborted, refreshTimeout>>
    /\ UNCHANGED <<callbacks, regTouched>>

\* A consumer registers its interest.
RegisterInterest(n, d, cb) ==
    /\ callbacks' = registerInterest(callbacks, n, [deviceId |-> d, callback |-> cb])
    /\ regTouched' = TRUE
    /\ lastDispatch' = NoDispatch
    /\ UNCHANGED <<acVars, socks>>

\* A consumer deregisters (outside any dispatch).
DeregisterInterest(n) ==
    /\ callbacks' = degisterInterest(callbacks, n)
    /\ lastDispatch' = NoDispatch
    /\ UNCHANGED <<acVars, socks, regTouched>>

\* The server accepts socket i.
SockOpen(i) ==
    /\ socks[i].state = "connecting"
    /\ socks' = [socks EXCEPT ![i].state = "open"]
    /\ lastDispatch' = NoDispatch
    /\ UNCHANGED <<acVars, callbacks, regTouched>>

\* Socket i reports an error or is closed by the server: no listener runs.
SockClose(i) ==
    /\ socks[i].state \in {"connecting", "open"}
    /\ socks' = [socks EXCEPT ![i].state = "closed"]
    /\ regTouched' = IF i = Len(socks) THEN FALSE ELSE regTouched
    /\ lastDispatch' = NoDispatch
    /\ UNCHANGED <<acVars, callbacks>>

\* A frame arrives on socket i: the message handler runs to its end.
OnMessage(i, frame) ==
    /\ socks[i].state = "open"
    /\ LET r == onMessage(callbacks, frame)
       IN  /\ callbacks' = r.cbs
           /\ lastDispatch' =
                  [sock |-> i, frame |-> frame, payload |-> Decode(frame),
                   regs |-> Keys(callbacks), still |-> Registered(r.cbs),
                   got |-> r.got, threw |-> r.threw,
                   recon |-> socks[i].re /\ ~regTouched]
    /\ UNCHANGED <<acVars, socks, regTouched>>

\* The channel is constructed once the controller has a bootstrap: the first
\* refresh cycle has completed, and the constructor has called Connect().
InitWS ==
    /\ controllerType = "UniFiOSConsole"
    /\ stopped = FALSE
    /\ aborted = FALSE
    /\ refreshTimeout = TRUE
    /\ authCookie = "TOKEN1"
    /\ authenticated = TRUE
    /\ initialized = TRUE
    /\ bootstrapObject = "docA"
    /\ calls = One(EndedCall("resolved"))
    /\ reqs = One(EndedReq([NewReq("bootstrap") EXCEPT !.promise = "resolved",
                                                      !.result = "docA"]))
    /\ epochLogins = 0
    /\ epochCreds = {"TOKEN1"}
    /\ callbacks = <<>>
    /\ socks = <<[state |-> "connecting", re |-> FALSE]>>
    /\ regTouched = FALSE
    /\ lastDispatch = NoDispatch

NextWS ==
    \/ Connect
    \/ \E n \in Nodes : \E d \in DeviceIds : \E cb \in Callbacks : RegisterInterest(n, d, cb)
    \/ \E n \in Nodes : DeregisterInterest(n)
    \/ \E i \in DOMAIN socks : SockOpen(i)
    \/ \E i \in DOMAIN socks : SockClose(i)
    \/ \E i \in DOMAIN socks : \E f \in Frames : OnMessage(i, f)

SpecWS == InitWS /\ [][NextWS]_vars


\* The web socket with the scheduling the event loop guarantees: a socket the
\* server accepts is opened and a frame that arrives is handled. Nothing
\* obliges a consumer to call Connect() again.
SpecWSFair ==
    /\ SpecWS
    /\ WF_vars(\E i \in DOMAIN socks : SockOpen(i))
    /\ WF_vars(\E i \in DOMAIN socks : \E f \in Frames : OnMessage(i, f))

\* The interest registry by itself: the two methods that consumers call on
\* it. The methods read and write this.callbacks only, and every registry a
\* dispatch can leave behind is also reached by degisterInterest calls.
NextRegistry ==
    \/ \E n \in Nodes : \E d \in DeviceIds : \E cb \in Callbacks : RegisterInterest(n, d, cb)
    \/ \E n \in Nodes : DeregisterInterest(n)

SpecRegistry == InitWS /\ [][NextRegistry]_vars

\* ---------------------------------------------- claims on the web socket
\* how often the handler of node n was invoked for the last frame
Invocations(n) ==
    Cardinality({k \in DOMAIN lastDispatch.got : lastDispatch.got[k].node = n})

Dispatched == lastDispatch.sock # 0

\* C5: every interest registered when a decodable frame arrives has its
\* handler invoked exactly once, with the decoded payload, whatever its
\* deviceId.
FanOut ==
    (Dispatched /\ lastDispatch.payload # Null) =>
        /\ \A k \in DOMAIN lastDispatch.regs : Invocations(lastDispatch.regs[k]) = 1
        /\ \A k \in DOMAIN lastDispatch.got :
              lastDispatch.got[k].data = lastDispatch.payload

\* C6: when handlers deregister consumers during a dispatch, the dispatch
\* still runs to completion and every consumer registered at its start, other
\* than the deregistered ones, is invoked exactly once.
DeregistrationDuringDispatch ==
    Dispatched =>
        /\ ~lastDispatch.threw
        /\ \A k \in DOMAIN lastDispatch.regs :
              lastDispatch.regs[k] \in lastDispatch.still =>
                  Invocations(lastDispatch.regs[k]) = 1

\* C7: a frame neither decode path can decode is dropped: no handler is
\* invoked for it.
UndecodableFrameDropped ==
    (Dispatched /\ lastDispatch.payload = Null) => lastDispatch.got = <<>>

\* C8: whenever the current socket has failed or been closed by the server, a
\* reconnect is eventually started: the current socket is eventually one that
\* is connecting or open again. (Stated for the disconnects that leave room
\* for one more socket within MaxSocks.)
ReconnectAfterDisconnect ==
    (socks[Len(socks)].state = "closed" /\ Len(socks) < MaxSocks)
        ~> (socks[Len(socks)].state # "closed")

\* C9: for a frame arriving on a socket that Connect() created after a
\* disconnect, with no registerInterest since the disconnect, every interest
\* that has not been deregistered is invoked exactly once.
ReconnectPreservesRegistry ==
    (Dispatched /\ lastDispatch.recon /\ lastDispatch.payload # Null) =>
        \A n \in lastDispatch.still : Invocations(n) = 1

\* the places of the registry that hold a registration of node n
EntriesOf(cbs, n) == {i \in DOMAIN cbs : cbs[i].node = n}

\* C14: registerInterest(id, x) leaves exactly one registration for id, equal
\* to x, and every other registration as it was; registering (id, x) again
\* changes nothing; degisterInterest of an absent id changes nothing.
RegistryUpsert ==
    [][/\ \A n \in Nodes : \A d \in DeviceIds : \A cb \in Callbacks :
            RegisterInterest(n, d, cb) =>
                LET x == [deviceId |-> d, callback |-> cb]
                IN  /\ Cardinality(EntriesOf(callbacks', n)) = 1
                    /\ \A i \in EntriesOf(callbacks', n) :
                          callbacks'[i] = [node |-> n, deviceId |-> d, callback |-> cb]
                    /\ \A o \in Nodes \ {n} :
                          /\ Cardinality(EntriesOf(callbacks', o))
                                = Cardinality(EntriesOf(callbacks, o))
                          /\ {callbacks'[i] : i \in EntriesOf(callbacks', o)}
                                = {callbacks[i] : i \in EntriesOf(callbacks, o)}
                    /\ registerInterest(callbacks', n, x) = callbacks'
       /\ \A n \in Nodes :
            (DeregisterInterest(n) /\ n \notin Registered(callbacks)) =>
                callbacks' = callbacks
      ]_vars

\* C14 witness: all three consumers are registered, after registrations that
\* gave a handler and a device other than the first ones.
RegistryFilled ==
    /\ regTouched
    /\ Registered(callbacks) = Nodes
    /\ \E i \in DOMAIN callbacks :
          callbacks[i].deviceId = "camB" /\ callbacks[i].callback # "-"
====

